---- MODULE Spec2Model ----
(***************************************************************************)
(* EduFlow: the Pomodoro timer (TimerContext), the Achievements page, the  *)
(* query-cache hooks (useAssignments / useDoubts), the database schema     *)
(* with its row-level security policies, and the Leaderboard page.         *)
(*                                                                         *)
(* Each subsystem has its own variables, its own next-state relation and   *)
(* its own specification; a subsystem's actions leave the variables of the *)
(* others unchanged.                                                       *)
(***************************************************************************)
EXTENDS Integers, Sequences, FiniteSets, Bags, TLC

\* a null user, subject or time stamp
NULL == "null"
\* a null row id (row ids are 1, 2, ...)
NoId == 0

(***************************************************************************)
(* Bounds                                                                  *)
(***************************************************************************)
\* study_sessions rows the timer may insert in one run
MaxSessions == 2

(***************************************************************************)
(* TimerContext (src/unnamed/part_002)                                     *)
(***************************************************************************)
WORK_TIME == 25 * 60
BREAK_TIME == 5 * 60

\* the signed-in user of the timer page
TimerUser == "u1"
\* two of the SUBJECTS chips of the timer page
Subjects == {"Mathematics", "Science"}

VARIABLES
  user,              \* useAuth().user seen by TimerProvider: NULL or a user id
  selectedSubject,   \* useState('Mathematics')
  timeLeft,          \* useState(WORK_TIME)
  isRunning,         \* useState(false)
  isBreak,           \* useState(false)
  settings,          \* useState<TimerSettings>(loadSettings)
  currentSessionId,  \* useState(null): NoId or a study_sessions id
  intervalRef,       \* useRef(null): NULL, or the interval last scheduled:
                     \*   live = not yet cleared, cIsBreak / cSessionId = the
                     \*   values handleTimerComplete closed over at the click
  study_sessions,    \* the table: sequence of rows, id = index
  pending,           \* bag of database calls awaited by timer callbacks
  lastOp             \* the timer callback that ran to its end last, and the
                     \* countdown / row it was about (observation only)

timerVars == <<user, selectedSubject, timeLeft, isRunning, isBreak, settings,
               currentSessionId, intervalRef, study_sessions, pending, lastOp>>

NoOp ==
  [op |-> "none", sid |-> NoId, forRow |-> NoId, wasBreak |-> FALSE,
   sound |-> FALSE, notification |-> FALSE]

\* loadSettings (lines 44-52): the settings saved in localStorage, or the
\* defaults when nothing is saved
DefaultSettings == [soundEnabled |-> TRUE, notificationsEnabled |-> FALSE]
SettingsValues == [soundEnabled : BOOLEAN, notificationsEnabled : BOOLEAN]
\* localStorage.getItem('timerSettings'): null, or what saveSettings wrote
NothingSaved == [saved |-> FALSE, value |-> DefaultSettings]
Saved(value) == [saved |-> TRUE, value |-> value]
loadSettings(item) == IF item.saved THEN item.value ELSE DefaultSettings

\* intervalRef.current = null
NoInterval ==
  [set |-> FALSE, live |-> FALSE, cIsBreak |-> FALSE, cSessionId |-> NoId,
   cSettings |-> DefaultSettings, forRow |-> NoId]

TimerStart ==
  /\ user \in {NULL, TimerUser}
  /\ selectedSubject = "Mathematics"
  /\ timeLeft = WORK_TIME
  /\ isRunning = FALSE
  /\ isBreak = FALSE
  /\ currentSessionId = NoId
  /\ intervalRef = NoInterval
  /\ study_sessions = <<>>
  /\ pending = EmptyBag
  /\ lastOp = NoOp

\* the first visit of the timer page: nothing is saved in localStorage
TimerInit == TimerStart /\ settings = loadSettings(NothingSaved)

\* a later visit: the settings saved by saveSettings are loaded
TimerInitSaved ==
  TimerStart /\ \E value \in SettingsValues : settings = loadSettings(Saved(value))

\* .update({ end_time, is_active: false }).eq('id', sid)
EndSession(rows, sid) ==
  [i \in DOMAIN rows |->
     IF i = sid THEN [rows[i] EXCEPT !.is_active = FALSE, !.end_time = "set"]
     ELSE rows[i]]

\* .insert({ user_id, subject, is_active: true })
NewSession(uid, subject) ==
  [user_id |-> uid, subject |-> subject, is_active |-> TRUE, end_time |-> NULL]

Await(call) == pending (+) SetToBag({call})
Resume(call) == pending (-) SetToBag({call})

\* the interval scheduled by startTimer at lines 195-204; its callback calls
\* the handleTimerComplete of the render in which startTimer was created
ScheduleInterval(cIsBreak, cSessionId, cSettings, forRow) ==
  [set |-> TRUE, live |-> TRUE, cIsBreak |-> cIsBreak,
   cSessionId |-> cSessionId, cSettings |-> cSettings, forRow |-> forRow]

\* clearInterval(intervalRef.current): the ref keeps the stale handle
ClearInterval(ref) == [ref EXCEPT !.live = FALSE]

\* a database call in flight: the row id and subject it carries, and (for the
\* observation in lastOp) the row of the countdown and the mode it ran in
Call(op, sid, subject, forRow, wasBreak) ==
  [op |-> op, sid |-> sid, subject |-> subject, forRow |-> forRow,
   wasBreak |-> wasBreak, cSettings |-> settings]

PendingCalls(op) == {c \in BagToSet(pending) : c.op = op}

Done(op, sid, forRow, wasBreak) ==
  [op |-> op, sid |-> sid, forRow |-> forRow, wasBreak |-> wasBreak,
   sound |-> FALSE, notification |-> FALSE]

\* the end of handleTimerComplete with its sound and notification: the
\* sound under `if (settings.soundEnabled)` (lines 122-124, 140-142) and
\* showNotification (lines 100-111), both with the settings of the render
\* that created the callback; granted = Notification.permission
Completed(done, cSettings, granted) ==
  [done EXCEPT !.sound = cSettings.soundEnabled,
               !.notification = cSettings.notificationsEnabled /\ granted]

\* the subject chips: onClick={() => !isRunning && setSelectedSubject(subject)}
SetSelectedSubject(s) ==
  /\ ~isRunning
  /\ s # selectedSubject
  /\ selectedSubject' = s
  /\ lastOp' = NoOp
  /\ UNCHANGED <<user, settings, timeLeft, isRunning, isBreak, currentSessionId,
                 intervalRef, study_sessions, pending>>

\* startTimer up to its first await (lines 156-179), or to its end when no
\* row is inserted (break countdown, lines 190-204).  The Start button is
\* rendered only while isRunning is false.
StartTimer ==
  /\ ~isRunning
  /\ IF selectedSubject = "" \/ user = NULL
     THEN /\ lastOp' = Done("start", NoId, NoId, isBreak)
          /\ UNCHANGED <<isRunning, pending, intervalRef>>
     ELSE /\ isRunning' = TRUE
          /\ IF ~isBreak
             THEN /\ Len(study_sessions) + BagCardinality(pending) < MaxSessions
                  /\ pending' = Await(Call("start", currentSessionId,
                                           selectedSubject, NoId, FALSE))
                  /\ lastOp' = NoOp
                  /\ UNCHANGED intervalRef
             ELSE /\ intervalRef' = ScheduleInterval(isBreak, currentSessionId, settings, NoId)
                  /\ lastOp' = Done("start", NoId, NoId, isBreak)
                  /\ UNCHANGED pending
  /\ UNCHANGED <<user, settings, selectedSubject, timeLeft, isBreak, currentSessionId,
                 study_sessions>>

\* startTimer after the insert returned an error (lines 181-185)
StartTimerFailed ==
  \E c \in PendingCalls("start") :
    /\ pending' = Resume(c)
    /\ isRunning' = FALSE
    /\ lastOp' = Done("start", NoId, NoId, FALSE)
    /\ UNCHANGED <<user, settings, selectedSubject, timeLeft, isBreak, currentSessionId,
                   intervalRef, study_sessions>>

\* startTimer inserting the subject selected when the insert returns
StartTimerInsertedLateSubject ==
  \E c \in PendingCalls("start") :
    LET id == Len(study_sessions) + 1 IN
    /\ pending' = Resume(c)
    /\ study_sessions' = Append(study_sessions, NewSession(user, selectedSubject))
    /\ currentSessionId' = id
    /\ intervalRef' = ScheduleInterval(FALSE, c.sid, c.cSettings, id)
    /\ lastOp' = Done("start", NoId, id, FALSE)
    /\ UNCHANGED <<user, settings, selectedSubject, timeLeft, isRunning, isBreak>>

\* startTimer after the insert returned the new row (lines 187-204)
StartTimerInserted ==
  \E c \in PendingCalls("start") :
    LET id == Len(study_sessions) + 1 IN
    /\ pending' = Resume(c)
    /\ study_sessions' = Append(study_sessions, NewSession(user, c.subject))
    /\ currentSessionId' = id
    /\ intervalRef' = ScheduleInterval(FALSE, c.sid, c.cSettings, id)
    /\ lastOp' = Done("start", NoId, id, FALSE)
    /\ UNCHANGED <<user, settings, selectedSubject, timeLeft, isRunning, isBreak>>

\* handleTimerComplete up to its await or, in the else branch, to its end
\* (lines 113-153), called from the interval callback with the isBreak and
\* currentSessionId of the render that created it
HandleTimerComplete(c) ==
  /\ isRunning' = FALSE
  /\ IF ~c.cIsBreak /\ c.cSessionId # NoId
     THEN /\ pending' = Await([Call("complete", c.cSessionId, "", c.forRow, isBreak)
                                 EXCEPT !.cSettings = c.cSettings])
          /\ timeLeft' = 0
          /\ lastOp' = NoOp
          /\ UNCHANGED isBreak
     ELSE /\ isBreak' = FALSE
          /\ timeLeft' = WORK_TIME
          /\ \E granted \in BOOLEAN :
               lastOp' = Completed(Done("complete", NoId, c.forRow, isBreak),
                                   c.cSettings, granted)
          /\ UNCHANGED pending

\* the interval callback (lines 195-204)
Tick ==
  /\ intervalRef.live
  /\ IF timeLeft <= 1
     THEN /\ intervalRef' = ClearInterval(intervalRef)
          /\ HandleTimerComplete(intervalRef)
     ELSE /\ timeLeft' = timeLeft - 1
          /\ lastOp' = NoOp
          /\ UNCHANGED <<isRunning, isBreak, pending, intervalRef>>
  /\ UNCHANGED <<user, settings, selectedSubject, currentSessionId, study_sessions>>

\* handleTimerComplete after the update returned (lines 123-138)
TimerCompleteUpdated ==
  \E c \in PendingCalls("complete") :
    /\ pending' = Resume(c)
    /\ study_sessions' = EndSession(study_sessions, c.sid)
    /\ currentSessionId' = NoId
    /\ isBreak' = TRUE
    /\ timeLeft' = BREAK_TIME
    /\ \E granted \in BOOLEAN :
         lastOp' = Completed(Done("complete", c.sid, c.forRow, c.wasBreak),
                             c.cSettings, granted)
    /\ UNCHANGED <<user, settings, selectedSubject, isRunning, intervalRef>>

\* pauseTimer (lines 207-219); the Pause button is rendered while isRunning
PauseTimer ==
  /\ isRunning
  /\ intervalRef' = NoInterval
  /\ isRunning' = FALSE
  /\ LET forRow == intervalRef.forRow IN
     IF ~isBreak /\ currentSessionId # NoId
     THEN /\ pending' = Await(Call("pause", currentSessionId, "", forRow, isBreak))
          /\ lastOp' = NoOp
     ELSE /\ lastOp' = Done("pause", NoId, forRow, isBreak)
          /\ UNCHANGED pending
  /\ UNCHANGED <<user, settings, selectedSubject, timeLeft, isBreak, currentSessionId,
                 study_sessions>>

\* pauseTimer after the update returned (line 221)
PauseTimerUpdated ==
  \E c \in PendingCalls("pause") :
    /\ pending' = Resume(c)
    /\ study_sessions' = EndSession(study_sessions, c.sid)
    /\ currentSessionId' = NoId
    /\ lastOp' = Done("pause", c.sid, c.forRow, c.wasBreak)
    /\ UNCHANGED <<user, settings, selectedSubject, timeLeft, isRunning, isBreak,
                   intervalRef>>

\* the sound toggle: updateSettings({ soundEnabled: !settings.soundEnabled })
\* (lines 80-86, StudyTimer.tsx lines 328-333)
ToggleSound ==
  /\ settings' = [settings EXCEPT !.soundEnabled = ~@]
  /\ lastOp' = NoOp
  /\ UNCHANGED <<user, selectedSubject, timeLeft, isRunning, isBreak,
                 currentSessionId, intervalRef, study_sessions, pending>>

\* the notifications toggle (StudyTimer.tsx lines 344-356): enabled only
\* when requestNotificationPermission grants, disabled at once
ToggleNotifications(granted) ==
  /\ settings' = [settings EXCEPT !.notificationsEnabled =
                    IF @ THEN FALSE ELSE granted]
  /\ lastOp' = NoOp
  /\ UNCHANGED <<user, selectedSubject, timeLeft, isRunning, isBreak,
                 currentSessionId, intervalRef, study_sessions, pending>>

\* progress (lines 252-254), as a whole percentage
Progress ==
  IF isBreak THEN ((BREAK_TIME - timeLeft) * 100) \div BREAK_TIME
  ELSE ((WORK_TIME - timeLeft) * 100) \div WORK_TIME

\* resetTimer without its setIsBreak(false)
ResetTimerKeepsBreak ==
  /\ ~(~isRunning /\ timeLeft = WORK_TIME /\ ~isBreak)
  /\ intervalRef' = NoInterval
  /\ isRunning' = FALSE
  /\ timeLeft' = WORK_TIME
  /\ LET forRow == intervalRef.forRow IN
     IF currentSessionId # NoId
     THEN /\ pending' = Await(Call("reset", currentSessionId, "", forRow, isBreak))
          /\ lastOp' = NoOp
     ELSE /\ lastOp' = Done("reset", NoId, forRow, isBreak)
          /\ UNCHANGED pending
  /\ UNCHANGED <<user, settings, selectedSubject, isBreak, currentSessionId, study_sessions>>

\* resetTimer (lines 225-240); the Reset button is
\* disabled={!isRunning && timeLeft === WORK_TIME && !isBreak}
ResetTimer ==
  /\ ~(~isRunning /\ timeLeft = WORK_TIME /\ ~isBreak)
  /\ intervalRef' = NoInterval
  /\ isRunning' = FALSE
  /\ isBreak' = FALSE
  /\ timeLeft' = WORK_TIME
  /\ LET forRow == intervalRef.forRow IN
     IF currentSessionId # NoId
     THEN /\ pending' = Await(Call("reset", currentSessionId, "", forRow, isBreak))
          /\ lastOp' = NoOp
     ELSE /\ lastOp' = Done("reset", NoId, forRow, isBreak)
          /\ UNCHANGED pending
  /\ UNCHANGED <<user, settings, selectedSubject, currentSessionId, study_sessions>>

\* resetTimer after the update returned (line 242)
ResetTimerUpdated ==
  \E c \in PendingCalls("reset") :
    /\ pending' = Resume(c)
    /\ study_sessions' = EndSession(study_sessions, c.sid)
    /\ currentSessionId' = NoId
    /\ lastOp' = Done("reset", c.sid, c.forRow, c.wasBreak)
    /\ UNCHANGED <<user, settings, selectedSubject, timeLeft, isRunning, isBreak,
                   intervalRef>>


(***************************************************************************)
(* Achievements page, student view (src/src/pages/Achievements.tsx)        *)
(***************************************************************************)
\* page loads of the same student that may overlap (tabs, re-run effects)
NumLoads == 2
\* most submissions the student has
MaxSubmissions == 5
\* most whole hours of completed study sessions the student has
MaxStudyHours == 5

Loads == 1 .. NumLoads

ACHIEVEMENTS == <<
  [key |-> "first_assignment", requirement |-> 1,   type |-> "assignments"],
  [key |-> "assignments_5",    requirement |-> 5,   type |-> "assignments"],
  [key |-> "assignments_10",   requirement |-> 10,  type |-> "assignments"],
  [key |-> "assignments_25",   requirement |-> 25,  type |-> "assignments"],
  [key |-> "assignments_50",   requirement |-> 50,  type |-> "assignments"],
  [key |-> "assignments_100",  requirement |-> 100, type |-> "assignments"],
  [key |-> "study_1h",         requirement |-> 1,   type |-> "study_hours"],
  [key |-> "study_5h",         requirement |-> 5,   type |-> "study_hours"],
  [key |-> "study_10h",        requirement |-> 10,  type |-> "study_hours"],
  [key |-> "study_25h",        requirement |-> 25,  type |-> "study_hours"],
  [key |-> "study_50h",        requirement |-> 50,  type |-> "study_hours"] >>

AchievementKeys == {ACHIEVEMENTS[i].key : i \in DOMAIN ACHIEVEMENTS}

VARIABLES
  ach_submissions,    \* rows of submissions with student_id = the student
  ach_studyMinutes,   \* minutes of the student's study_sessions rows that
                      \* have an end_time (sum of end_time - start_time)
  user_achievements,  \* the table: sequence of rows of the student;
                      \* by = the page load that inserted the row
  toasts,             \* bag of keys of the 'Achievement Unlocked' toasts shown
  load,               \* per page load: position in fetchData /
                      \* checkAndAwardAchievements and its local variables
  studentSummaries    \* TeacherAchievementsView: loading and the list

achVars == <<ach_submissions, ach_studyMinutes, user_achievements, toasts, load,
             studentSummaries>>

\* the student whose rows the tables of this section hold, and a teacher
AchStudent == "u1"
AchTeacher == "u2"

IdleLoad ==
  [pc |-> "idle", earnedKeys |-> {}, assignmentCount |-> 0, studyMinutes |-> 0,
   idx |-> 0, newAchievements |-> {}, insertFailed |-> FALSE]

AchInit ==
  /\ ach_submissions \in 0 .. MaxSubmissions
  /\ ach_studyMinutes \in {h * 60 + d : h \in 0 .. MaxStudyHours, d \in {0, 59}}
  /\ user_achievements = <<>>
  /\ toasts = EmptyBag
  /\ load = [p \in Loads |-> IdleLoad]
  /\ studentSummaries = [loading |-> TRUE, list |-> <<>>]

RecordedKeys == {user_achievements[i].achievement_key : i \in DOMAIN user_achievements}

\* lines 337-342, with studyHours = studyMinutes / 60 (line 322, not floored):
\* studyMinutes / 60 >= requirement  iff  studyMinutes >= requirement * 60
EarnedStrict(a, assignments, studyMinutes) ==
  \/ a.type = "assignments" /\ assignments > a.requirement
  \/ a.type = "study_hours" /\ studyMinutes > a.requirement * 60

Earned(a, assignments, studyMinutes) ==
  \/ a.type = "assignments" /\ assignments >= a.requirement
  \/ a.type = "study_hours" /\ studyMinutes >= a.requirement * 60

\* the for loop of checkAndAwardAchievements runs without suspending up to
\* the next achievement it inserts: its index, or 0 when the loop ends
NextAward(l, from) ==
  LET todo == {i \in DOMAIN ACHIEVEMENTS :
                 /\ i > from
                 /\ ACHIEVEMENTS[i].key \notin l.earnedKeys
                 /\ Earned(ACHIEVEMENTS[i], l.assignmentCount, l.studyMinutes)}
  IN IF todo = {} THEN 0 ELSE CHOOSE i \in todo : \A j \in todo : i <= j

\* UNIQUE(user_id, achievement_key) of the migration (index.ts line 372)
AchievementInsertAllowedNoUnique(key) == TRUE

AchievementInsertAllowed(key) == key \notin RecordedKeys

\* fetchData up to the first await returning (lines 296-306)
FetchEarned(p) ==
  /\ load[p].pc = "idle"
  /\ load' = [load EXCEPT ![p] = [IdleLoad EXCEPT !.pc = "stats",
                                                  !.earnedKeys = RecordedKeys]]
  /\ UNCHANGED <<ach_submissions, ach_studyMinutes, user_achievements, toasts,
                 studentSummaries>>

\* fetchData after Promise.all returned (lines 309-322) and the loop of
\* checkAndAwardAchievements up to its first insert (lines 332-345)
FetchStats(p) ==
  /\ load[p].pc = "stats"
  /\ LET l == [load[p] EXCEPT !.assignmentCount = ach_submissions,
                              !.studyMinutes = ach_studyMinutes]
         i == NextAward(l, 0)
     IN load' = [load EXCEPT ![p] = [l EXCEPT !.idx = i,
                                     !.pc = IF i = 0 THEN "done" ELSE "award"]]
  /\ UNCHANGED <<ach_submissions, ach_studyMinutes, user_achievements, toasts,
                 studentSummaries>>

\* one insert of checkAndAwardAchievements returning (lines 345-357), and the
\* loop up to the next insert or to its end (lines 360-362, 324)
AwardAchievement(p, requestOk) ==
  /\ load[p].pc = "award"
  /\ LET l == load[p]
         key == ACHIEVEMENTS[l.idx].key
         ok == requestOk /\ AchievementInsertAllowed(key)
         i == NextAward(l, l.idx)
     IN /\ user_achievements' =
             IF ok THEN Append(user_achievements,
                               [achievement_key |-> key, by |-> p])
             ELSE user_achievements
        /\ toasts' = IF ok THEN toasts (+) SetToBag({key}) ELSE toasts
        /\ load' = [load EXCEPT ![p] =
             [l EXCEPT !.newAchievements = IF ok THEN @ \cup {key} ELSE @,
                       !.insertFailed = @ \/ ~ok,
                       !.idx = i,
                       !.pc = IF i = 0 THEN "done" ELSE "award"]]
  /\ UNCHANGED <<ach_submissions, ach_studyMinutes, studentSummaries>>

\* "Users can view own achievements" USING (index.ts lines 379-382)
AchievementSelectPermitted(uid, row) == uid = row.user_id

\* the rows of user_achievements a select of user uid returns: row-level
\* security keeps the rows the SELECT policy permits
AchievementRowsVisible(uid) ==
  SelectSeq(user_achievements,
            LAMBDA r : AchievementSelectPermitted(uid, [user_id |-> AchStudent]))

\* fetchStudentAchievements, lines 73-116: the rows grouped by user_id, one
\* summary per user
Summaries(rows) ==
  IF rows = <<>> THEN <<>>
  ELSE <<[user_id |-> AchStudent,
          achievement_count |-> Len(rows),
          achievements |-> [i \in DOMAIN rows |-> rows[i].achievement_key]]>>

\* fetchStudentAchievements of the Achievements page opened by a teacher
\* (lines 58-122)
FetchStudentAchievements ==
  /\ studentSummaries' =
       [loading |-> FALSE, list |-> Summaries(AchievementRowsVisible(AchTeacher))]
  /\ UNCHANGED <<ach_submissions, ach_studyMinutes, user_achievements, toasts, load>>

RECURSIVE SumCounts(_)
SumCounts(list) ==
  IF list = <<>> THEN 0 ELSE Head(list).achievement_count + SumCounts(Tail(list))

\* lines 128-129
totalAchievementsEarned == SumCounts(studentSummaries.list)
studentsWithAchievements == Len(studentSummaries.list)


\* ACHIEVEMENTS of the Profile page (src/src/pages/Profile.tsx lines 11-21)
ProfileAchievements == <<
  [key |-> "first_session",     priority |-> 1],
  [key |-> "hour_milestone",    priority |-> 2],
  [key |-> "streak_3",          priority |-> 3],
  [key |-> "streak_7",          priority |-> 4],
  [key |-> "early_bird",        priority |-> 5],
  [key |-> "night_owl",         priority |-> 6],
  [key |-> "top_10",            priority |-> 7],
  [key |-> "assignment_master", priority |-> 8],
  [key |-> "study_champion",    priority |-> 9] >>

\* ACHIEVEMENTS[item.achievement_key]: the entries with the key, none when
\* the lookup is undefined
ProfileLookup(key) ==
  {ProfileAchievements[i] : i \in {j \in DOMAIN ProfileAchievements :
                                     ProfileAchievements[j].key = key}}

\* fetchHighestAchievement (Profile.tsx lines 57-76) of the student: the
\* key of the badge that is set, NULL when highestAchievement stays null
fetchHighestAchievement ==
  LET data == AchievementRowsVisible(AchStudent)
      known == UNION {ProfileLookup(data[i].achievement_key) : i \in DOMAIN data}
  IN IF known = {} THEN NULL
     ELSE (CHOOSE a \in known : \A b \in known : a.priority >= b.priority).key


(***************************************************************************)
(* Query-cache hooks: useAssignments (src/src/hooks/useAssignments.ts) and *)
(* useDoubts (src/unnamed/part_012).  One query of one signed-in user is   *)
(* modelled per behaviour: the assignments list of a teacher, the          *)
(* submissions list of a student, or the doubts list.                      *)
(***************************************************************************)
\* mutations started in one run
MaxMutations == 2
\* values a row's content takes: the due date of an assignment, the
\* assignment of a submission, the question of a doubt
Values == {1, 2}

Hooks == {"assignments", "submissions", "doubts"}

VARIABLES
  hook,         \* the query modelled in this behaviour
  server,       \* rows of the table that the query returns to the user, in
                \* insertion order
  nextId,       \* next row id the server hands out
  cache,        \* queryClient's data for the query key: undefined or a list
  fetchStatus,  \* "idle", "fetching" or "error" (last fetch failed)
  response,     \* rows read by the fetch in flight, not yet delivered
  mutations,    \* mutations between onMutate and their settling
  mutCount,     \* mutations started so far
  lastSettle    \* the mutation whose callbacks ran last (observation only)

cacheVars == <<hook, server, nextId, cache, fetchStatus, response, mutations,
               mutCount, lastSettle>>

Undefined == [defined |-> FALSE, data |-> <<>>]
Data(rows) == [defined |-> TRUE, data |-> rows]

Row(id, val) == [id |-> id, val |-> val, replies |-> <<>>]

\* no send-reply-notification request
NoNotification == [sent |-> FALSE, question |-> 0, reply |-> <<>>]

NoSettle ==
  [n |-> 0, error |-> FALSE, before |-> Undefined, kind |-> "none",
   target |-> NoId, val |-> 0, notification |-> NoNotification]

CacheInit ==
  /\ hook \in Hooks
  /\ server \in {<<>>, <<Row(1, 1)>>}
  /\ nextId = Len(server) + 1
  /\ cache = Undefined
  /\ fetchStatus = "fetching"
  /\ response = Undefined
  /\ mutations = {}
  /\ mutCount = 0
  /\ lastSettle = NoSettle

RECURSIVE Reverse(_)
Reverse(q) == IF q = <<>> THEN <<>> ELSE Append(Reverse(Tail(q)), Head(q))

RECURSIVE InsertSorted(_, _)
InsertSorted(q, r) ==
  IF q = <<>> THEN <<r>>
  ELSE IF r.val < Head(q).val THEN <<r>> \o q
  ELSE <<Head(q)>> \o InsertSorted(Tail(q), r)

RECURSIVE SortByVal(_)
SortByVal(q) ==
  IF q = <<>> THEN <<>>
  ELSE InsertSorted(SortByVal(SubSeq(q, 1, Len(q) - 1)), q[Len(q)])

\* the reply texts a teacher types, as sequences of characters
RawReply(val) == IF val = 1 THEN <<"o", "k">> ELSE <<" ", "n", "o", " ">>

RECURSIVE TrimStart(_)
TrimStart(text) ==
  IF text # <<>> /\ Head(text) = " " THEN TrimStart(Tail(text)) ELSE text

\* String.prototype.trim
Trim(text) == Reverse(TrimStart(Reverse(TrimStart(text))))

\* a row of doubt_replies as the doubts query nests it in its doubt
Reply(id, val) == [id |-> id, reply |-> Trim(RawReply(val))]

\* queryFn: assignments .order('due_date', ascending) (useAssignments.ts
\* line 34), doubts .order('created_at', descending) (part_012 line 35),
\* submissions unordered (line 52-55)
QueryFn(h, rows) ==
  CASE h = "assignments" -> SortByVal(rows)
    [] h = "doubts"      -> Reverse(rows)
    [] OTHER             -> rows

MapRows(q, F(_)) == [i \in DOMAIN q |-> F(q[i])]
FilterOut(q, id) == SelectSeq(q, LAMBDA r : r.id # id)

MutationKinds(h) ==
  CASE h = "assignments" -> {"create", "update", "delete"}
    [] h = "submissions" -> {"create"}
    [] OTHER             -> {"create", "delete", "reply"}

\* the optimistic setQueryData of each onMutate, applied to old || []
Optimistic(h, kind, old, target, val, tempId) ==
  CASE kind = "create" /\ h = "doubts" -> <<Row(tempId, val)>> \o old
    [] kind = "create"                 -> Append(old, Row(tempId, val))
    [] kind = "update" ->
         MapRows(old, LAMBDA r : IF r.id = target THEN [r EXCEPT !.val = val] ELSE r)
    [] kind = "delete" -> FilterOut(old, target)
    [] OTHER ->
         MapRows(old, LAMBDA r : IF r.id = target
                                 THEN [r EXCEPT !.replies = Append(@, Reply(tempId, val))]
                                 ELSE r)

\* cancelQueries: a fetch in flight is dropped and the query reverts
CancelQueries(status) == IF status = "fetching" THEN "idle" ELSE status

\* mutate(): onMutate of the mutation (cancelQueries, getQueryData,
\* setQueryData) up to the request of mutationFn being sent
Mutate(kind, target, val) ==
  /\ mutCount < MaxMutations
  /\ kind \in MutationKinds(hook)
  /\ LET n == mutCount + 1 IN
     /\ mutCount' = n
     /\ fetchStatus' = CancelQueries(fetchStatus)
     /\ response' = Undefined
     /\ cache' = Data(Optimistic(hook, kind, cache.data, target, val, -n))
     /\ mutations' = mutations \cup
          {[n |-> n, kind |-> kind, target |-> target, val |-> val,
            before |-> cache, result |-> "pending"]}
  /\ UNCHANGED <<hook, server, nextId, lastSettle>>

\* UNIQUE(assignment_id, student_id) of submissions (index.ts line 153)
InsertAllowedNoUnique(h, rows, val) == TRUE

InsertAllowed(h, rows, val) ==
  h = "submissions" => \A i \in DOMAIN rows : rows[i].val # val

\* whether the database accepts the statement of mutationFn: ids are uuids
\* (a 'temp-...' id is none), a reply references an existing doubt
Accepted(h, m, rows) ==
  CASE m.kind = "create" -> InsertAllowed(h, rows, m.val)
    [] m.kind = "reply"  -> \E i \in DOMAIN rows : rows[i].id = m.target
    [] OTHER             -> m.target > 0

\* the tables with a DELETE policy: assignments ("Teachers can delete own
\* assignments", index.ts lines 263-266); doubts has row-level security
\* enabled (line 190) and SELECT and INSERT policies only (lines 301-312),
\* so a delete finds no row it may delete and reports no error
DeletePolicy(h) == h = "assignments"

\* the statement of mutationFn applied to the table
Written(h, m, rows, id) ==
  CASE m.kind = "create" -> Append(rows, Row(id, m.val))
    [] m.kind = "update" ->
         MapRows(rows, LAMBDA r : IF r.id = m.target THEN [r EXCEPT !.val = m.val] ELSE r)
    [] m.kind = "delete" ->
         IF DeletePolicy(h) THEN FilterOut(rows, m.target) ELSE rows
    [] OTHER ->
         MapRows(rows, LAMBDA r : IF r.id = m.target
                                  THEN [r EXCEPT !.replies = Append(@, Reply(id, m.val))]
                                  ELSE r)

\* mutationFn: the database executes the statement, or the request fails
MutationFn(m, requestOk) ==
  /\ m \in mutations
  /\ m.result = "pending"
  /\ LET ok == requestOk /\ Accepted(hook, m, server) IN
     /\ server' = IF ok THEN Written(hook, m, server, nextId) ELSE server
     /\ nextId' = IF ok /\ m.kind \in {"create", "reply"} THEN nextId + 1 ELSE nextId
     /\ mutations' = (mutations \ {m}) \cup
          {[m EXCEPT !.result = IF ok THEN "ok" ELSE "error"]}
  /\ UNCHANGED <<hook, cache, fetchStatus, response, mutCount, lastSettle>>

\* onError: if (context?.previous...) setQueryData(key, context.previous...)
OnError(m, c) == IF m.before.defined THEN m.before ELSE c

\* onSettled: invalidateQueries cancels a fetch in flight and refetches
InvalidateOnSuccessOnly(m, status) == IF m.result = "ok" THEN "fetching" ELSE status

Invalidate(m, status) == "fetching"

\* onSuccess of replyMutation (part_012 lines 209-240): the doubt is looked
\* up in doubtsQuery.data, the body carries its question and the text of
\* its last reply; no request without the doubt or the student's e-mail
Notification(m, c, emailFound) ==
  LET found == {i \in DOMAIN c.data : c.data[i].id = m.target} IN
  IF m.kind # "reply" \/ m.result # "ok" \/ found = {} \/ ~emailFound
  THEN NoNotification
  ELSE LET doubt == c.data[CHOOSE i \in found : TRUE] IN
       [sent |-> TRUE, question |-> doubt.val,
        reply |-> IF doubt.replies = <<>> THEN <<>>
                  ELSE doubt.replies[Len(doubt.replies)].reply]

\* the response of mutationFn arrives: onSuccess or onError, then onSettled
Settle(m) ==
  /\ m \in mutations
  /\ m.result # "pending"
  /\ cache' = IF m.result = "error" THEN OnError(m, cache) ELSE cache
  /\ fetchStatus' = Invalidate(m, fetchStatus)
  /\ response' = IF fetchStatus' = "fetching" THEN Undefined ELSE response
  /\ mutations' = mutations \ {m}
  /\ \E emailFound \in BOOLEAN :
       lastSettle' = [n |-> m.n, error |-> m.result = "error",
                      before |-> m.before, kind |-> m.kind,
                      target |-> m.target, val |-> m.val,
                      notification |-> Notification(m, cache, emailFound)]
  /\ UNCHANGED <<hook, server, nextId, mutCount>>

\* the database answers the select of queryFn
FetchRespond ==
  /\ fetchStatus = "fetching"
  /\ ~response.defined
  /\ response' = Data(QueryFn(hook, server))
  /\ UNCHANGED <<hook, server, nextId, cache, fetchStatus, mutations, mutCount,
                 lastSettle>>

\* queryFn throws (if (error) throw error) or the request fails
FetchFail ==
  /\ fetchStatus = "fetching"
  /\ fetchStatus' = "error"
  /\ response' = Undefined
  /\ UNCHANGED <<hook, server, nextId, cache, mutations, mutCount, lastSettle>>

\* queryFn returns and the result is stored under the query key
FetchComplete ==
  /\ fetchStatus = "fetching"
  /\ response.defined
  /\ cache' = response
  /\ fetchStatus' = "idle"
  /\ response' = Undefined
  /\ UNCHANGED <<hook, server, nextId, mutations, mutCount, lastSettle>>

\* refetch() returned by the hooks
Refetch ==
  /\ fetchStatus # "fetching"
  /\ fetchStatus' = "fetching"
  /\ response' = Undefined
  /\ UNCHANGED <<hook, server, nextId, cache, mutations, mutCount, lastSettle>>

\* ids the user can act on: those shown from the cache
ShownIds == {cache.data[i].id : i \in DOMAIN cache.data}


(***************************************************************************)
(* The database schema and its row-level security policies (the migration  *)
(* in src/supabase/functions/send-reply-notification/index.ts, lines       *)
(* 112-387) and AuthProvider (src/src/contexts/AuthContext.tsx) of one     *)
(* browser.                                                                *)
(***************************************************************************)
\* rows of the assignments table
MaxAssignments == 1
\* fetchUserRole calls in flight at once
MaxRoleFetches == 1
\* setUserRole calls whose answer has not been handled yet
MaxRoleInserts == 1

Users == {"u1", "u2"}
Roles == {"student", "teacher"}

VARIABLES
  user_roles,      \* the table: sequence of rows [user_id, role]
  assignments,     \* the table: sequence of rows [id, teacher_id, title]
  authUser,        \* AuthProvider: useState<User | null>(null)
  role,            \* AuthProvider: useState<Role>(null)
  loading,         \* AuthProvider: useState(true)
  sessionChecked,  \* whether supabase.auth.getSession() has resolved
  roleFetches,     \* bag of user ids of fetchUserRole calls in flight
  roleInserts,     \* setUserRole calls whose insert has been answered
  lastWrite        \* the last write to assignments (observation only)

dbVars == <<user_roles, assignments, authUser, role, loading, sessionChecked,
            roleFetches, roleInserts, lastWrite>>

NoWrite == [op |-> "none", by |-> NULL, teacher_id |-> NULL,
            byStudent |-> FALSE, byTeacher |-> FALSE]

DbInit ==
  /\ user_roles = <<>>
  /\ assignments = <<>>
  /\ authUser = NULL
  /\ role = NULL
  /\ loading = TRUE
  /\ sessionChecked = FALSE
  /\ roleFetches = EmptyBag
  /\ roleInserts = {}
  /\ lastWrite = NoWrite

\* public.has_role(_user_id, _role) (index.ts lines 194-207)
has_role(uid, r) ==
  \E i \in DOMAIN user_roles :
    user_roles[i].user_id = uid /\ user_roles[i].role = r

RoleRowsOf(uid) == {i \in DOMAIN user_roles : user_roles[i].user_id = uid}

\* user_roles: UNIQUE(user_id, role) (index.ts line 130) and the policy
\* "Users can insert own role" WITH CHECK (auth.uid() = user_id) (242-245)
RoleInsertPermitted(uid, user_id, r) ==
  /\ uid = user_id
  /\ ~\E i \in DOMAIN user_roles :
        user_roles[i].user_id = user_id /\ user_roles[i].role = r

\* "Teachers can create assignments" WITH CHECK (index.ts lines 253-256)
AssignmentInsertPermitted(uid, teacher_id) ==
  has_role(uid, "teacher") /\ uid = teacher_id

\* "Teachers can update own assignments" / "Teachers can delete own
\* assignments" USING (index.ts lines 258-266)
AssignmentWritePermitted(uid, row) ==
  has_role(uid, "teacher") /\ uid = row.teacher_id

Wrote(op, uid, teacher_id) ==
  [op |-> op, by |-> uid, teacher_id |-> teacher_id,
   byStudent |-> has_role(uid, "student"),
   byTeacher |-> has_role(uid, "teacher")]

\* "Students can view own submissions" USING (index.ts lines 269-272)
SubmissionSelectPermitted(uid, row) ==
  uid = row.student_id \/ has_role(uid, "teacher")

\* "Users can view own study sessions" USING (index.ts lines 285-288)
SessionSelectPermitted(uid, row) == uid = row.user_id

\* a request of user uid to the database API: insert into user_roles
DbInsertRole(uid, user_id, r) ==
  /\ RoleInsertPermitted(uid, user_id, r)
  /\ user_roles' = Append(user_roles, [user_id |-> user_id, role |-> r])
  /\ lastWrite' = NoWrite
  /\ UNCHANGED <<assignments, authUser, role, loading, sessionChecked,
                 roleFetches, roleInserts>>

\* a request of user uid: insert into assignments
DbInsertAssignment(uid, teacher_id) ==
  /\ Len(assignments) < MaxAssignments
  /\ AssignmentInsertPermitted(uid, teacher_id)
  /\ assignments' = Append(assignments,
                           [teacher_id |-> teacher_id, title |-> 1])
  /\ lastWrite' = Wrote("insert", uid, teacher_id)
  /\ UNCHANGED <<user_roles, authUser, role, loading, sessionChecked,
                 roleFetches, roleInserts>>

\* a request of user uid: update assignments set ... where id = i; the
\* USING expression selects the rows and also checks the new row
DbUpdateAssignment(uid, i, teacher_id, title) ==
  /\ i \in DOMAIN assignments
  /\ AssignmentWritePermitted(uid, assignments[i])
  /\ AssignmentWritePermitted(uid, [teacher_id |-> teacher_id, title |-> title])
  /\ assignments' = [assignments EXCEPT ![i] =
                       [teacher_id |-> teacher_id, title |-> title]]
  /\ lastWrite' = Wrote("update", uid, assignments[i].teacher_id)
  /\ UNCHANGED <<user_roles, authUser, role, loading, sessionChecked,
                 roleFetches, roleInserts>>

\* a request of user uid: delete from assignments where id = i
DbDeleteAssignment(uid, i) ==
  /\ i \in DOMAIN assignments
  /\ AssignmentWritePermitted(uid, assignments[i])
  /\ assignments' = [j \in 1 .. Len(assignments) - 1 |->
                       IF j < i THEN assignments[j] ELSE assignments[j + 1]]
  /\ lastWrite' = Wrote("delete", uid, assignments[i].teacher_id)
  /\ UNCHANGED <<user_roles, authUser, role, loading, sessionChecked,
                 roleFetches, roleInserts>>

\* onAuthStateChange callback (AuthContext.tsx lines 30-40); u = NULL is an
\* event without a session
AuthStateChange(u) ==
  /\ authUser' = u
  /\ IF u # NULL
     THEN /\ BagCardinality(roleFetches) < MaxRoleFetches
          /\ roleFetches' = roleFetches (+) SetToBag({u})
          /\ UNCHANGED <<role, loading>>
     ELSE /\ role' = NULL
          /\ loading' = FALSE
          /\ UNCHANGED roleFetches
  /\ lastWrite' = NoWrite
  /\ UNCHANGED <<user_roles, assignments, sessionChecked, roleInserts>>

\* getSession().then(...) (lines 42-50)
GetSession(u) ==
  /\ ~sessionChecked
  /\ sessionChecked' = TRUE
  /\ authUser' = u
  /\ IF u # NULL
     THEN /\ BagCardinality(roleFetches) < MaxRoleFetches
          /\ roleFetches' = roleFetches (+) SetToBag({u})
          /\ UNCHANGED loading
     ELSE /\ loading' = FALSE
          /\ UNCHANGED roleFetches
  /\ lastWrite' = NoWrite
  /\ UNCHANGED <<user_roles, assignments, role, roleInserts>>

\* .maybeSingle(): the row if there is exactly one, no data otherwise
MaybeSingle(uid) ==
  IF Cardinality(RoleRowsOf(uid)) = 1
  THEN user_roles[CHOOSE i \in RoleRowsOf(uid) : TRUE].role
  ELSE NULL

\* fetchUserRole after its select returned (lines 55-64); the policy "Users
\* can view own role" lets the user read the own rows
FetchUserRole(u, requestOk) ==
  /\ BagIn(u, roleFetches)
  /\ roleFetches' = roleFetches (-) SetToBag({u})
  /\ role' = IF requestOk THEN MaybeSingle(u) ELSE NULL
  /\ loading' = FALSE
  /\ lastWrite' = NoWrite
  /\ UNCHANGED <<user_roles, assignments, authUser, sessionChecked, roleInserts>>

\* signOut (lines 108-111): the SIGNED_OUT event, then setRole(null)
SignOut ==
  /\ authUser # NULL
  /\ authUser' = NULL
  /\ role' = NULL
  /\ loading' = FALSE
  /\ lastWrite' = NoWrite
  /\ UNCHANGED <<user_roles, assignments, sessionChecked, roleFetches, roleInserts>>

\* setUserRole up to the answer of its insert (lines 113-118), called from
\* the role-selection screen, which the Auth page renders when loading is
\* false, user is set and role is null (part_006 lines 61-72, 263)
SetUserRole(newRole, requestOk) ==
  /\ ~loading /\ authUser # NULL /\ role = NULL
  /\ Cardinality(roleInserts) < MaxRoleInserts
  /\ LET ok == requestOk /\ RoleInsertPermitted(authUser, authUser, newRole)
         n == Cardinality(roleInserts) + 1 IN
     /\ user_roles' = IF ok THEN Append(user_roles,
                                        [user_id |-> authUser, role |-> newRole])
                      ELSE user_roles
     /\ roleInserts' = roleInserts \cup {[n |-> n, role |-> newRole, ok |-> ok]}
  /\ lastWrite' = NoWrite
  /\ UNCHANGED <<assignments, authUser, role, loading, sessionChecked, roleFetches>>

\* setUserRole after the insert returned (lines 120-121)
SetUserRoleReturns(c) ==
  /\ c \in roleInserts
  /\ roleInserts' = roleInserts \ {c}
  /\ role' = IF c.ok THEN c.role ELSE role
  /\ lastWrite' = NoWrite
  /\ UNCHANGED <<user_roles, assignments, authUser, loading, sessionChecked,
                 roleFetches>>

\* what a route renders: a page, the loading spinner, or <Navigate to=...>
Page(path) == [kind |-> "page", at |-> path]
Spinner == [kind |-> "spinner", at |-> ""]
Navigate(to) == [kind |-> "navigate", at |-> to]

\* ProtectedRoute without the line `if (!role) return <Navigate .../>`
ProtectedRouteNoRole(children) ==
  IF loading THEN Spinner
  ELSE IF authUser = NULL THEN Navigate("/auth")
  ELSE children

\* ProtectedRoute (App.tsx lines 9-17, part_004 lines 345-353)
ProtectedRoute(children) ==
  IF loading THEN Spinner
  ELSE IF authUser = NULL THEN Navigate("/auth")
  ELSE IF role = NULL THEN Navigate("/auth")
  ELSE children

\* the paths whose <Route> wraps its page in ProtectedRoute (part_004 lines
\* 359-365; App.tsx lines 23-24 has the first two)
ProtectedPaths ==
  {"/dashboard", "/assignments", "/study-timer", "/leaderboard", "/doubts",
   "/profile", "/achievements"}

\* the locations a browser can be at; "/other" stands for every path that
\* only path="*" matches
Paths == ProtectedPaths \cup {"/auth", "/", "/other"}

\* AppRoutes (part_004 lines 355-370): the element of the matching <Route>
AppRoutes(path) ==
  CASE path = "/auth"          -> Page("/auth")
    [] path \in ProtectedPaths -> ProtectedRoute(Page(path))
    [] OTHER                   -> Navigate("/dashboard")


(***************************************************************************)
(* Leaderboard page (src/unnamed/part_011) over the submissions and        *)
(* study_sessions tables as the select policies let the viewer read them.  *)
(***************************************************************************)
\* rows of submissions and of study_sessions in the database
MaxLbSubmissions == 2
MaxLbSessions == 2

LbStudents == {"s1", "s2"}
LbTeachers == {"t1"}
LbUsers == LbStudents \cup LbTeachers

\* time stamps 0, 1, 2; the current month starts at 1, the current week at 2
Times == 0 .. 2
MonthStart == 1
WeekStart == 2
\* duration end_time - start_time of a session, in units of 30 seconds
SessionHalfMinutes == 5

TimePeriods == {"all", "week", "month"}

VARIABLES
  lb_submissions,  \* the submissions table: sequence of rows, id = index
  lb_sessions,     \* the study_sessions table: sequence of rows, id = index
  viewer,          \* the signed-in user who opens the page
  timePeriod,      \* useState<TimePeriod>('all')
  leaderboard,     \* useState<LeaderboardEntry[]>([])
  lb_loading       \* useState(true)

lbVars == <<lb_submissions, lb_sessions, viewer, timePeriod, leaderboard, lb_loading>>

SubmissionRows == [student_id : LbStudents, completed_at : Times]

SessionRows ==
  [user_id : LbUsers, start_time : Times, ended : BOOLEAN,
   halfMinutes : {SessionHalfMinutes}]

UserRank(u) == CASE u = "s1" -> 0 [] u = "s2" -> 1 [] OTHER -> 2

\* tables that differ only in the order of their rows are the same table:
\* the initial tables are listed in one order
SubmissionRank(r) == UserRank(r.student_id) * 3 + r.completed_at
SessionRank(r) ==
  (UserRank(r.user_id) * 3 + r.start_time) * 2 + (IF r.ended THEN 1 ELSE 0)

SubmissionTables ==
  UNION {{q \in [1 .. n -> SubmissionRows] :
            \A i \in 1 .. n - 1 : SubmissionRank(q[i]) <= SubmissionRank(q[i + 1])}
         : n \in 0 .. MaxLbSubmissions}

SessionTables ==
  UNION {{q \in [1 .. n -> SessionRows] :
            \A i \in 1 .. n - 1 : SessionRank(q[i]) <= SessionRank(q[i + 1])}
         : n \in 0 .. MaxLbSessions}

LbInit ==
  /\ lb_submissions \in SubmissionTables
  /\ lb_sessions \in SessionTables
  /\ viewer \in LbUsers
  /\ timePeriod = "all"
  /\ leaderboard = <<>>
  /\ lb_loading = TRUE

\* has_role over the fixed roles of the three users
LbHasRole(uid, r) ==
  \/ r = "student" /\ uid \in LbStudents
  \/ r = "teacher" /\ uid \in LbTeachers

\* "Students can view own submissions" USING (index.ts lines 269-272)
SubmissionsVisible(uid) ==
  {i \in DOMAIN lb_submissions :
     uid = lb_submissions[i].student_id \/ LbHasRole(uid, "teacher")}

\* "Users can view own study sessions" USING (index.ts lines 285-288)
SessionsVisible(uid) == {i \in DOMAIN lb_sessions : uid = lb_sessions[i].user_id}

\* getStartDate (lines 32-40): -1 stands for null
GetStartDate(period) ==
  CASE period = "week"  -> WeekStart
    [] period = "month" -> MonthStart
    [] OTHER            -> -1

\* the reduce over the durations of the session rows with the given ids
RECURSIVE SumHalfMinutes(_)
SumHalfMinutes(ids) ==
  IF ids = {} THEN 0
  ELSE LET i == CHOOSE x \in ids : TRUE
       IN lb_sessions[i].halfMinutes + SumHalfMinutes(ids \ {i})

\* Math.round of a number of half minutes divided by two
RoundMinutes(h) == (h + 1) \div 2

\* lines 96-109; subs and sess are the ids of the rows the selects returned
Entry(userId, subs, sess) ==
  LET assignments_completed ==
        Cardinality({i \in subs : lb_submissions[i].student_id = userId})
      minutes ==
        RoundMinutes(SumHalfMinutes({i \in sess : lb_sessions[i].user_id = userId}))
  IN [id |-> userId,
      assignments_completed |-> assignments_completed,
      study_minutes |-> minutes,
      total_score |-> assignments_completed * 10 + (minutes \div 5)]

\* entries.sort((a, b) => b.total_score - a.total_score)
RECURSIVE SortByScore(_)
SortByScore(entries) ==
  IF entries = {} THEN <<>>
  ELSE LET top == CHOOSE e \in entries :
                    \A f \in entries : e.total_score >= f.total_score
       IN <<top>> \o SortByScore(entries \ {top})

\* fetchLeaderboard (lines 42-116) for the given period
FetchLeaderboard(period) ==
  LET startDate == GetStartDate(period)
      subs == {i \in SubmissionsVisible(viewer) :
                 lb_submissions[i].completed_at >= startDate}
      sess == {i \in SessionsVisible(viewer) :
                 lb_sessions[i].ended /\ lb_sessions[i].start_time >= startDate}
      userIds == {lb_submissions[i].student_id : i \in subs}
                   \cup {lb_sessions[i].user_id : i \in sess}
  IN SortByScore({Entry(u, subs, sess) : u \in userIds})

\* useEffect(() => { fetchLeaderboard(); }, [timePeriod]) on mount
LoadLeaderboard ==
  /\ lb_loading
  /\ leaderboard' = FetchLeaderboard(timePeriod)
  /\ lb_loading' = FALSE
  /\ UNCHANGED <<lb_submissions, lb_sessions, viewer, timePeriod>>

\* a click on a period button, and the effect it triggers
SetTimePeriod(period) ==
  /\ ~lb_loading
  /\ period # timePeriod
  /\ timePeriod' = period
  /\ leaderboard' = FetchLeaderboard(period)
  /\ UNCHANGED <<lb_submissions, lb_sessions, viewer, lb_loading>>

\* the tabs of the page: useState('overall')
Tabs == {"overall", "assignments", "study"}

\* the number a tab's comparator orders by; total_score is what
\* fetchLeaderboard sorted by
Metric(e, tab) ==
  CASE tab = "assignments" -> e.assignments_completed
    [] tab = "study"       -> e.study_minutes
    [] OTHER               -> e.total_score

\* Array.prototype.sort with (a, b) => b.x - a.x is stable: an entry goes
\* behind the entries that are not smaller
RECURSIVE InsertDescending(_, _, _)
InsertDescending(q, e, tab) ==
  IF q = <<>> THEN <<e>>
  ELSE IF Metric(Head(q), tab) >= Metric(e, tab)
       THEN <<Head(q)>> \o InsertDescending(Tail(q), e, tab)
       ELSE <<e>> \o q

RECURSIVE SortDescending(_, _)
SortDescending(q, tab) ==
  IF q = <<>> THEN <<>>
  ELSE InsertDescending(SortDescending(SubSeq(q, 1, Len(q) - 1), tab),
                        q[Len(q)], tab)

\* getSortedLeaderboard without its branch for the study tab
getSortedLeaderboardNoStudy(activeTab) ==
  IF activeTab = "assignments" THEN SortDescending(leaderboard, activeTab)
  ELSE leaderboard

\* getSortedLeaderboard (lines 118-126)
getSortedLeaderboard(activeTab) ==
  IF activeTab \in {"assignments", "study"}
  THEN SortDescending(leaderboard, activeTab)
  ELSE leaderboard

\* findIndex(e => e.id === id) + 1
FindIndex(q, id) ==
  LET found == {i \in DOMAIN q : q[i].id = id}
  IN IF found = {} THEN 0 ELSE CHOOSE i \in found : \A j \in found : i <= j

\* currentUserRank (line 146)
currentUserRank(activeTab) == FindIndex(getSortedLeaderboard(activeTab), viewer)

\* studentStatsQuery of the dashboard (src/src/lib/audio.ts lines 95-120)
\* for student uid, without its count of the assignments table: the own
\* submissions, the rounded minutes of the own ended sessions, and rank
StudentStats(uid) ==
  LET subs == {i \in SubmissionsVisible(uid) : lb_submissions[i].student_id = uid}
      sess == {i \in SessionsVisible(uid) :
                 lb_sessions[i].user_id = uid /\ lb_sessions[i].ended}
  IN [completed |-> Cardinality(subs),
      studyTime |-> RoundMinutes(SumHalfMinutes(sess)),
      rank |-> 1]

(***************************************************************************)
(* The statistics of the StudyTimer page (src/src/pages/StudyTimer.tsx     *)
(* lines 66-98) over the study_sessions rows of its user.                  *)
(***************************************************************************)
\* study_sessions rows of the user of the page
MaxPageSessions == 11
\* .limit(10) of fetchSessions
SessionsLimit == 10

VARIABLES
  page_sessions,   \* the user's rows of study_sessions in the order of
                   \* start_time: [today, ended, halfMinutes]
  sessionsToday,   \* useState(0)
  totalToday       \* useState(0)

pageVars == <<page_sessions, sessionsToday, totalToday>>

\* a row that started before today and has ended, a row of today that has
\* ended after a minute and a half, a row of today without end_time
PageSessionRows ==
  {[today |-> FALSE, ended |-> TRUE, halfMinutes |-> 3],
   [today |-> TRUE, ended |-> TRUE, halfMinutes |-> 3],
   [today |-> TRUE, ended |-> FALSE, halfMinutes |-> 0]}

PageInit ==
  /\ page_sessions = <<>>
  /\ sessionsToday = 0
  /\ totalToday = 0

\* a session is started (and possibly ended) after the recorded ones
RecordSession(row) ==
  /\ Len(page_sessions) < MaxPageSessions
  /\ row \in PageSessionRows
  /\ row.today \/ \A i \in DOMAIN page_sessions : ~page_sessions[i].today
  /\ page_sessions' = Append(page_sessions, row)
  /\ UNCHANGED <<sessionsToday, totalToday>>

\* .order('start_time', { ascending: false }).limit(limit)
LatestSessions(limit) ==
  LET n == Len(page_sessions)
      k == IF n < limit THEN n ELSE limit
  IN [i \in 1 .. k |-> page_sessions[n + 1 - i]]

RECURSIVE SumOfHalfMinutes(_)
SumOfHalfMinutes(rows) ==
  IF rows = <<>> THEN 0
  ELSE Head(rows).halfMinutes + SumOfHalfMinutes(Tail(rows))

\* fetchSessions (lines 66-98)
FetchSessions ==
  LET data == LatestSessions(SessionsLimit)
      todaySessions == SelectSeq(data, LAMBDA s : s.today /\ s.ended)
  IN /\ sessionsToday' = Len(todaySessions)
     /\ totalToday' = RoundMinutes(SumOfHalfMinutes(todaySessions))
     /\ UNCHANGED page_sessions


(***************************************************************************)
(* The send-reply-notification function                                    *)
(* (src/supabase/functions/send-reply-notification/index.ts)               *)
(***************************************************************************)
\* requests served by one instance of the function
MaxRequests == 3

Methods == {"OPTIONS", "POST", "GET"}
StudentEmails == {"a@school", "b@school"}

\* what req.json() has to read: a body that is no JSON, or an object with
\* the studentEmail of the question's author
NoJson == [json |-> FALSE, studentEmail |-> NULL]
JsonBody(email) == [json |-> TRUE, studentEmail |-> email]
Bodies == {NoJson} \cup {JsonBody(e) : e \in StudentEmails}

NoRequest == [method |-> NULL, body |-> NoJson]
NoResponse == [status |-> 0, cors |-> FALSE, success |-> NULL, error |-> FALSE]

VARIABLES
  req,           \* the request being handled: [method, body]
  handlerAt,     \* "idle", "json" (await req.json()), "send" (await
                 \* resend.emails.send), "returned"
  httpResponse,  \* the Response the handler returned
  outbox,        \* recipients of the emails the mail service accepted
  emailSent,     \* the mail service accepted the email of this request
  served         \* number of requests received

fnVars == <<req, handlerAt, httpResponse, outbox, emailSent, served>>

FnInit ==
  /\ req = NoRequest
  /\ handlerAt = "idle"
  /\ httpResponse = NoResponse
  /\ outbox = <<>>
  /\ emailSent = FALSE
  /\ served = 0

\* new Response(null, { headers: corsHeaders }) (line 24)
Preflight == [status |-> 200, cors |-> TRUE, success |-> NULL, error |-> FALSE]
\* the Response of lines 91-97
Success == [status |-> 200, cors |-> TRUE, success |-> TRUE, error |-> FALSE]
\* the Response of the catch block (lines 100-106)
Failure == [status |-> 500, cors |-> TRUE, success |-> FALSE, error |-> TRUE]

\* serve(handler) calls handler(req): up to the first await
Handler(method, body) ==
  /\ handlerAt \in {"idle", "returned"}
  /\ served < MaxRequests
  /\ served' = served + 1
  /\ req' = [method |-> method, body |-> body]
  /\ emailSent' = FALSE
  /\ IF method = "OPTIONS"
     THEN /\ httpResponse' = Preflight
          /\ handlerAt' = "returned"
     ELSE /\ httpResponse' = NoResponse
          /\ handlerAt' = "json"
  /\ UNCHANGED outbox

\* await req.json() resolves or rejects (line 35)
ReadJson ==
  /\ handlerAt = "json"
  /\ IF req.body.json
     THEN /\ handlerAt' = "send"
          /\ UNCHANGED httpResponse
     ELSE /\ handlerAt' = "returned"
          /\ httpResponse' = Failure
  /\ UNCHANGED <<req, outbox, emailSent, served>>

\* resend.emails.send resolves with { data, error: null }: the mail
\* service accepted the email
SendAccepted ==
  /\ handlerAt = "send"
  /\ outbox' = Append(outbox, req.body.studentEmail)
  /\ emailSent' = TRUE
  /\ httpResponse' = Success
  /\ handlerAt' = "returned"
  /\ UNCHANGED <<req, served>>

\* resend.emails.send resolves with { data: null, error }: the mail
\* service answered with an error status (resend@2.0.0 returns the error,
\* it does not throw); the handler goes on to line 89
SendRefused ==
  /\ handlerAt = "send"
  /\ httpResponse' = Success
  /\ handlerAt' = "returned"
  /\ UNCHANGED <<req, outbox, emailSent, served>>

\* resend.emails.send rejects (the fetch itself fails): the catch block
SendThrows ==
  /\ handlerAt = "send"
  /\ httpResponse' = Failure
  /\ handlerAt' = "returned"
  /\ UNCHANGED <<req, outbox, emailSent, served>>


(***************************************************************************)
(* Specifications                                                          *)
(***************************************************************************)
vars == <<timerVars, achVars, cacheVars, dbVars, lbVars, pageVars, fnVars>>

\* a subsystem that a specification does not exercise stays in one state
TimerRest ==
  /\ user = NULL
  /\ selectedSubject = "Mathematics"
  /\ timeLeft = WORK_TIME
  /\ isRunning = FALSE
  /\ isBreak = FALSE
  /\ currentSessionId = NoId
  /\ intervalRef = NoInterval
  /\ study_sessions = <<>>
  /\ pending = EmptyBag
  /\ lastOp = NoOp
  /\ settings = DefaultSettings

AchRest ==
  /\ ach_submissions = 0
  /\ ach_studyMinutes = 0
  /\ user_achievements = <<>>
  /\ toasts = EmptyBag
  /\ load = [p \in Loads |-> IdleLoad]
  /\ studentSummaries = [loading |-> TRUE, list |-> <<>>]

CacheRest ==
  /\ hook = "assignments"
  /\ server = <<>>
  /\ nextId = 1
  /\ cache = Undefined
  /\ fetchStatus = "fetching"
  /\ response = Undefined
  /\ mutations = {}
  /\ mutCount = 0
  /\ lastSettle = NoSettle

LbRest ==
  /\ lb_submissions = <<>>
  /\ lb_sessions = <<>>
  /\ viewer = "s1"
  /\ timePeriod = "all"
  /\ leaderboard = <<>>
  /\ lb_loading = TRUE

PageRest == PageInit

FnRest == FnInit

notTimer == <<achVars, cacheVars, dbVars, lbVars, pageVars, fnVars>>
notAch == <<timerVars, cacheVars, dbVars, lbVars, pageVars, fnVars>>
notCache == <<timerVars, achVars, dbVars, lbVars, pageVars, fnVars>>
notDb == <<timerVars, achVars, cacheVars, lbVars, pageVars, fnVars>>
notLb == <<timerVars, achVars, cacheVars, dbVars, pageVars, fnVars>>
notPage == <<timerVars, achVars, cacheVars, dbVars, lbVars, fnVars>>
notFn == <<timerVars, achVars, cacheVars, dbVars, lbVars, pageVars>>

\* the timer page of one browser tab
InitTimer ==
  TimerInit /\ AchRest /\ CacheRest /\ DbInit /\ LbRest /\ PageRest /\ FnRest
NextTimer ==
  \/ (\E s \in Subjects : SetSelectedSubject(s)) /\ UNCHANGED notTimer
  \/ StartTimer /\ UNCHANGED notTimer
  \/ StartTimerFailed /\ UNCHANGED notTimer
  \/ StartTimerInserted /\ UNCHANGED notTimer
  \/ Tick /\ UNCHANGED notTimer
  \/ TimerCompleteUpdated /\ UNCHANGED notTimer
  \/ PauseTimer /\ UNCHANGED notTimer
  \/ PauseTimerUpdated /\ UNCHANGED notTimer
  \/ ResetTimer /\ UNCHANGED notTimer
  \/ ResetTimerUpdated /\ UNCHANGED notTimer
SpecTimer == InitTimer /\ [][NextTimer]_vars

\* the timer page when every click waits for the database call of the
\* previous callback to return
Settled == pending = EmptyBag
NextTimerSeq ==
  \/ (Settled /\ \E s \in Subjects : SetSelectedSubject(s)) /\ UNCHANGED notTimer
  \/ (Settled /\ StartTimer) /\ UNCHANGED notTimer
  \/ StartTimerFailed /\ UNCHANGED notTimer
  \/ StartTimerInserted /\ UNCHANGED notTimer
  \/ Tick /\ UNCHANGED notTimer
  \/ TimerCompleteUpdated /\ UNCHANGED notTimer
  \/ (Settled /\ PauseTimer) /\ UNCHANGED notTimer
  \/ PauseTimerUpdated /\ UNCHANGED notTimer
  \/ (Settled /\ ResetTimer) /\ UNCHANGED notTimer
  \/ ResetTimerUpdated /\ UNCHANGED notTimer
SpecTimerSeq == InitTimer /\ [][NextTimerSeq]_vars

\* the timer page with the subject left at its default
NextTimerOneSubject ==
  \/ StartTimer /\ UNCHANGED notTimer
  \/ StartTimerFailed /\ UNCHANGED notTimer
  \/ StartTimerInserted /\ UNCHANGED notTimer
  \/ Tick /\ UNCHANGED notTimer
  \/ TimerCompleteUpdated /\ UNCHANGED notTimer
  \/ PauseTimer /\ UNCHANGED notTimer
  \/ PauseTimerUpdated /\ UNCHANGED notTimer
  \/ ResetTimer /\ UNCHANGED notTimer
  \/ ResetTimerUpdated /\ UNCHANGED notTimer
SpecTimerOneSubject == InitTimer /\ [][NextTimerOneSubject]_vars

\* countdowns that run to their end while the settings panel of the timer
\* page is used, the settings being those saved by an earlier visit
InitTimerSettings ==
  TimerInitSaved /\ AchRest /\ CacheRest /\ DbInit /\ LbRest /\ PageRest /\ FnRest
NextTimerSettings ==
  \/ StartTimer /\ UNCHANGED notTimer
  \/ StartTimerFailed /\ UNCHANGED notTimer
  \/ StartTimerInserted /\ UNCHANGED notTimer
  \/ Tick /\ UNCHANGED notTimer
  \/ TimerCompleteUpdated /\ UNCHANGED notTimer
  \/ ToggleSound /\ UNCHANGED notTimer
  \/ (\E granted \in BOOLEAN : ToggleNotifications(granted)) /\ UNCHANGED notTimer
SpecTimerSettings == InitTimerSettings /\ [][NextTimerSettings]_vars

\* page loads of the Achievements page of one student
InitAch ==
  TimerRest /\ AchInit /\ CacheRest /\ DbInit /\ LbRest /\ PageRest /\ FnRest
NextAch ==
  \/ (\E p \in Loads : FetchEarned(p)) /\ UNCHANGED notAch
  \/ (\E p \in Loads : FetchStats(p)) /\ UNCHANGED notAch
  \/ (\E p \in Loads, requestOk \in BOOLEAN : AwardAchievement(p, requestOk))
       /\ UNCHANGED notAch
  \/ FetchStudentAchievements /\ UNCHANGED notAch
SpecAch == InitAch /\ [][NextAch]_vars

\* one cached query and its mutations
InitCache ==
  TimerRest /\ AchRest /\ CacheInit /\ DbInit /\ LbRest /\ PageRest /\ FnRest
NextCache ==
  \/ (\E val \in Values : Mutate("create", 0, val)) /\ UNCHANGED notCache
  \/ (\E target \in ShownIds, val \in Values : Mutate("update", target, val))
       /\ UNCHANGED notCache
  \/ (\E target \in ShownIds, kind \in {"delete", "reply"}, val \in Values :
        Mutate(kind, target, IF kind = "reply" THEN val ELSE 0))
       /\ UNCHANGED notCache
  \/ (\E m \in mutations, requestOk \in BOOLEAN : MutationFn(m, requestOk))
       /\ UNCHANGED notCache
  \/ (\E m \in mutations : Settle(m)) /\ UNCHANGED notCache
  \/ FetchRespond /\ UNCHANGED notCache
  \/ FetchFail /\ UNCHANGED notCache
  \/ FetchComplete /\ UNCHANGED notCache
  \/ Refetch /\ UNCHANGED notCache
SpecCache == InitCache /\ [][NextCache]_vars

\* the submissions query of one student and submitAssignment
InitSubmissions == InitCache /\ hook = "submissions"
NextSubmissions ==
  \/ (\E val \in Values : Mutate("create", 0, val)) /\ UNCHANGED notCache
  \/ (\E m \in mutations, requestOk \in BOOLEAN : MutationFn(m, requestOk))
       /\ UNCHANGED notCache
  \/ (\E m \in mutations : Settle(m)) /\ UNCHANGED notCache
  \/ FetchRespond /\ UNCHANGED notCache
  \/ FetchFail /\ UNCHANGED notCache
  \/ FetchComplete /\ UNCHANGED notCache
  \/ Refetch /\ UNCHANGED notCache
SpecSubmissions == InitSubmissions /\ [][NextSubmissions]_vars

\* the database under requests of its users, and AuthProvider of one browser
InitDb ==
  TimerRest /\ AchRest /\ CacheRest /\ DbInit /\ LbRest /\ PageRest /\ FnRest
NextDb ==
  \/ (\E uid \in Users, user_id \in Users, r \in Roles : DbInsertRole(uid, user_id, r))
       /\ UNCHANGED notDb
  \/ (\E uid \in Users, teacher_id \in Users : DbInsertAssignment(uid, teacher_id))
       /\ UNCHANGED notDb
  \/ (\E uid \in Users, i \in DOMAIN assignments, teacher_id \in Users,
         title \in Values : DbUpdateAssignment(uid, i, teacher_id, title))
       /\ UNCHANGED notDb
  \/ (\E uid \in Users, i \in DOMAIN assignments : DbDeleteAssignment(uid, i))
       /\ UNCHANGED notDb
  \/ (\E u \in Users \cup {NULL} : AuthStateChange(u)) /\ UNCHANGED notDb
  \/ (\E u \in Users \cup {NULL} : GetSession(u)) /\ UNCHANGED notDb
  \/ (\E u \in Users, requestOk \in BOOLEAN : FetchUserRole(u, requestOk))
       /\ UNCHANGED notDb
  \/ SignOut /\ UNCHANGED notDb
  \/ (\E newRole \in Roles, requestOk \in BOOLEAN : SetUserRole(newRole, requestOk))
       /\ UNCHANGED notDb
  \/ (\E c \in roleInserts : SetUserRoleReturns(c)) /\ UNCHANGED notDb
SpecDb == InitDb /\ [][NextDb]_vars

\* AuthProvider and the role-selection screen of one browser, without other
\* requests to the database
NextAuth ==
  \/ (\E u \in Users \cup {NULL} : AuthStateChange(u)) /\ UNCHANGED notDb
  \/ (\E u \in Users \cup {NULL} : GetSession(u)) /\ UNCHANGED notDb
  \/ (\E u \in Users, requestOk \in BOOLEAN : FetchUserRole(u, requestOk))
       /\ UNCHANGED notDb
  \/ SignOut /\ UNCHANGED notDb
  \/ (\E newRole \in Roles, requestOk \in BOOLEAN : SetUserRole(newRole, requestOk))
       /\ UNCHANGED notDb
  \/ (\E c \in roleInserts : SetUserRoleReturns(c)) /\ UNCHANGED notDb
SpecAuth == InitDb /\ [][NextAuth]_vars

\* the statistics of the StudyTimer page while sessions are recorded
InitPage ==
  TimerRest /\ AchRest /\ CacheRest /\ DbInit /\ LbRest /\ PageInit /\ FnRest
NextPage ==
  \/ (\E row \in PageSessionRows : RecordSession(row)) /\ UNCHANGED notPage
  \/ FetchSessions /\ UNCHANGED notPage
SpecPage == InitPage /\ [][NextPage]_vars

\* one instance of the send-reply-notification function
InitFn ==
  TimerRest /\ AchRest /\ CacheRest /\ DbInit /\ LbRest /\ PageRest /\ FnInit
NextFn ==
  \/ (\E method \in Methods, body \in Bodies : Handler(method, body))
       /\ UNCHANGED notFn
  \/ ReadJson /\ UNCHANGED notFn
  \/ SendAccepted /\ UNCHANGED notFn
  \/ SendRefused /\ UNCHANGED notFn
  \/ SendThrows /\ UNCHANGED notFn
SpecFn == InitFn /\ [][NextFn]_vars

\* the Leaderboard page over a database that does not change meanwhile
InitLb ==
  TimerRest /\ AchRest /\ CacheRest /\ DbInit /\ LbInit /\ PageRest /\ FnRest
NextLb ==
  \/ LoadLeaderboard /\ UNCHANGED notLb
  \/ (\E period \in TimePeriods : SetTimePeriod(period)) /\ UNCHANGED notLb
SpecLb == InitLb /\ [][NextLb]_vars


(***************************************************************************)
(* Properties                                                              *)
(***************************************************************************)

\* C1: when handleTimerComplete has finished for a countdown that reached
\* zero in work mode, the timer is stopped and in break mode with
\* timeLeft = BREAK_TIME; when it has finished for a countdown that reached
\* zero in break mode, the timer is stopped and in work mode with
\* timeLeft = WORK_TIME.
C1_CompletionSwitchesMode ==
  lastOp.op = "complete" =>
    /\ ~isRunning
    /\ IF lastOp.wasBreak
       THEN ~isBreak /\ timeLeft = WORK_TIME
       ELSE isBreak /\ timeLeft = BREAK_TIME

\* C2: when handleTimerComplete, pauseTimer or resetTimer has finished, no
\* study_sessions row is still active, and the row it ended is the row that
\* startTimer inserted for the countdown.
C2_SessionEnded ==
  lastOp.op \in {"complete", "pause", "reset"} =>
    /\ \A i \in DOMAIN study_sessions :
         ~study_sessions[i].is_active /\ study_sessions[i].end_time # NULL
    /\ lastOp.forRow # NoId => lastOp.sid = lastOp.forRow

\* the counters of the claim C3, taken from the tables
Qualifies(a) ==
  \/ a.type = "assignments" /\ a.requirement <= ach_submissions
  \/ a.type = "study_hours" /\ a.requirement * 60 <= ach_studyMinutes

AchievementOf(key) ==
  ACHIEVEMENTS[CHOOSE i \in DOMAIN ACHIEVEMENTS : ACHIEVEMENTS[i].key = key]

C4_RollbackRestores ==
  (lastSettle.error /\ mutations = {}) => cache = lastSettle.before

TempIds(rows) == {rows[i].id : i \in {j \in DOMAIN rows : rows[j].id < 0}}

C6_OneRolePerUser ==
  \A u \in Users : Cardinality(RoleRowsOf(u)) <= 1

\* C7: every insert, update or delete of an assignment row is made by a
\* user who holds the teacher role and not the student role, on a row whose
\* teacher_id is that user.
C7_OnlyTeachersWriteAssignments ==
  lastWrite.op # "none" =>
    /\ ~lastWrite.byStudent
    /\ lastWrite.byTeacher
    /\ lastWrite.teacher_id = lastWrite.by

ActiveStudents(period) ==
  {u \in LbStudents :
     \/ \E i \in DOMAIN lb_submissions :
          /\ lb_submissions[i].student_id = u
          /\ lb_submissions[i].completed_at >= GetStartDate(period)
     \/ \E i \in DOMAIN lb_sessions :
          /\ lb_sessions[i].user_id = u /\ lb_sessions[i].ended
          /\ lb_sessions[i].start_time >= GetStartDate(period)}

TrueAssignments(u, period) ==
  Cardinality({i \in DOMAIN lb_submissions :
                 /\ lb_submissions[i].student_id = u
                 /\ lb_submissions[i].completed_at >= GetStartDate(period)})

TrueStudyMinutes(u, period) ==
  RoundMinutes(SumHalfMinutes({i \in DOMAIN lb_sessions :
                 /\ lb_sessions[i].user_id = u /\ lb_sessions[i].ended
                 /\ lb_sessions[i].start_time >= GetStartDate(period)}))

\* C10: for every viewer and period, the loaded leaderboard has exactly one
\* entry for each student with a submission or a completed session in the
\* period, and the entry carries the student's totals of the period.
C10_LeaderboardComplete ==
  ~lb_loading =>
    /\ {leaderboard[i].id : i \in DOMAIN leaderboard} = ActiveStudents(timePeriod)
    /\ Len(leaderboard) = Cardinality(ActiveStudents(timePeriod))
    /\ \A i \in DOMAIN leaderboard :
         /\ leaderboard[i].assignments_completed =
              TrueAssignments(leaderboard[i].id, timePeriod)
         /\ leaderboard[i].study_minutes =
              TrueStudyMinutes(leaderboard[i].id, timePeriod)

\* C11: the timer is in one of the four states given by isBreak and
\* isRunning, timeLeft is within 0..WORK_TIME in work mode and within
\* 0..BREAK_TIME in break mode, and progress is within 0..100.
C11_FourStateCountdown ==
  /\ isBreak \in BOOLEAN /\ isRunning \in BOOLEAN
  /\ timeLeft \in 0 .. (IF isBreak THEN BREAK_TIME ELSE WORK_TIME)
  /\ Progress \in 0 .. 100

\* a break countdown is running, half-way through
C11_Witness ==
  /\ isBreak /\ isRunning /\ intervalRef.live
  /\ timeLeft = BREAK_TIME \div 2
  /\ Progress = 50

\* a timer operation begins: a click on Start, Pause or Reset, or the tick
\* that calls handleTimerComplete
TimerOpBegins ==
  \/ StartTimer
  \/ PauseTimer
  \/ ResetTimer
  \/ Tick /\ timeLeft <= 1

\* C12: no timer operation begins while another one is suspended at a
\* database call.
C12_NoConcurrency ==
  [][TimerOpBegins => pending = EmptyBag]_vars

\* C15: the interval of intervalRef is scheduled only while isRunning is
\* true, and timeLeft is not counted down by a step that starts with
\* isRunning false.
C15_IntervalOnlyWhileRunning ==
  /\ [](intervalRef.live => isRunning)
  /\ [][(~isRunning /\ Tick) => timeLeft' >= timeLeft]_vars

\* the state of the timer that a failed or refused start must leave alone
StartKeeps == <<currentSessionId, isBreak, timeLeft, study_sessions>>

\* C16: when the insert of startTimer has failed, isRunning is false, no
\* interval is scheduled and currentSessionId, isBreak, timeLeft and the
\* table are as they were; startTimer without a user changes nothing.
C16_FailedStartRestores ==
  /\ [][StartTimerFailed =>
          /\ isRunning' = FALSE
          /\ ~intervalRef'.live
          /\ UNCHANGED StartKeeps]_vars
  /\ [][(StartTimer /\ user = NULL) =>
          UNCHANGED <<StartKeeps, isRunning, intervalRef, pending>>]_vars

\* C13: a user who holds the student role is not let to read a row of
\* submissions, study_sessions or user_achievements of another user.
C13_StudentsReadOwnRowsOnly ==
  \A u \in Users : has_role(u, "student") =>
    \A v \in Users \ {u} :
      /\ ~SubmissionSelectPermitted(u, [student_id |-> v])
      /\ ~SessionSelectPermitted(u, [user_id |-> v])
      /\ ~AchievementSelectPermitted(u, [user_id |-> v])

\* C14: when loading is false and role is not null, a user is held in the
\* context and role is a user_roles value of that user.
C14_RoleBelongsToUser ==
  (~loading /\ role # NULL) => (authUser # NULL /\ has_role(authUser, role))

\* C20: when the role-selection screen is shown (loading false, user set,
\* role null, no setUserRole of the screen under way), the user has no row
\* in user_roles.
C20_RoleSelectionOnlyWithoutRole ==
  (~loading /\ authUser # NULL /\ role = NULL /\ roleInserts = {}) =>
    RoleRowsOf(authUser) = {}

IdsOf(rows) == {rows[i].id : i \in DOMAIN rows}

\* C17: when onError of a failed mutation on the assignments or doubts list
\* has run, every entry that was in the cached list before, other than
\* the failed mutation's own optimistic entry, is still in it.
C17_RollbackKeepsOthers ==
  [][(/\ hook \in {"assignments", "doubts"}
      /\ lastSettle' # lastSettle
      /\ lastSettle'.error)
       => IdsOf(cache.data) \ {-(lastSettle'.n)} \subseteq IdsOf(cache'.data)]_vars

\* C18: when a deleteDoubt mutation has settled with success, the doubt is
\* not a row of the server's table, and it is not in the cached list once
\* the refetch has completed.
C18_DeletedDoubtIsGone ==
  (/\ hook = "doubts"
   /\ lastSettle.kind = "delete"
   /\ ~lastSettle.error)
    => /\ lastSettle.target \notin IdsOf(server)
       /\ (mutations = {} /\ fetchStatus = "idle")
            => lastSettle.target \notin IdsOf(cache.data)

\* the question of the doubt with the given id in the table
QuestionOf(id) == server[CHOOSE i \in DOMAIN server : server[i].id = id].val

\* C19: a notification is requested only by a reply mutation whose insert
\* succeeded, its reply field is the trimmed text of that reply and its
\* question field is the question of the doubt replied to.
C19_NotificationCarriesReply ==
  lastSettle.notification.sent =>
    /\ lastSettle.kind = "reply" /\ ~lastSettle.error
    /\ lastSettle.notification.reply = Trim(RawReply(lastSettle.val))
    /\ lastSettle.target \in IdsOf(server)
    /\ lastSettle.notification.question = QuestionOf(lastSettle.target)

\* C21: at every path other than /auth a page is rendered only when loading
\* is false, user is set and role is set; otherwise a protected route
\* renders the spinner exactly when loading is true and the redirect to
\* /auth when it is false, and the remaining paths redirect to /dashboard.
C21_ProtectedContent ==
  \A p \in Paths \ {"/auth"} :
    LET admitted == ~loading /\ authUser # NULL /\ role # NULL
        shown == AppRoutes(p) IN
    /\ shown.kind = "page" => admitted
    /\ p \in ProtectedPaths =>
         /\ admitted => shown = Page(p)
         /\ (~admitted /\ loading) => shown = Spinner
         /\ (~admitted /\ ~loading) => shown = Navigate("/auth")
    /\ p \notin ProtectedPaths => shown = Navigate("/dashboard")

\* a signed-in user with a role is shown the doubts page
C21_Witness ==
  /\ ~loading /\ authUser # NULL /\ role # NULL
  /\ AppRoutes("/doubts") = Page("/doubts")
  /\ AppRoutes("/") = Navigate("/dashboard")

\* C22: pauseTimer changes none of timeLeft, isBreak and selectedSubject,
\* and the countdown does not move while the timer is paused; a pause in
\* work mode sends the update that ends the row of the countdown in
\* progress, a pause in break mode sends nothing.
C22_PauseKeepsAndEnds ==
  /\ [][(PauseTimer \/ PauseTimerUpdated) =>
          UNCHANGED <<timeLeft, isBreak, selectedSubject>>]_vars
  /\ [][(~isRunning /\ ~isRunning') => timeLeft' \in {timeLeft, WORK_TIME, BREAK_TIME}]_vars
  /\ [][(PauseTimer /\ ~isBreak) =>
          \E c \in BagToSet(pending') :
            /\ c.op = "pause" /\ c.sid = currentSessionId
            /\ c.sid = Len(study_sessions) /\ c.sid # NoId]_vars
  /\ [][(PauseTimer /\ isBreak) => UNCHANGED <<pending, study_sessions>>]_vars

C24_SoundFollowsSettings ==
  lastOp.op = "complete" =>
    /\ lastOp.sound <=> settings.soundEnabled
    /\ lastOp.notification => settings.notificationsEnabled

\* C25: when fetchStudentAchievements of a teacher has loaded, the list
\* holds every student with a row in user_achievements together with all
\* of the student's achievement keys, and the two summary counts are the
\* number of such students and the number of rows of the table.
C25_TeacherSeesAllAchievements ==
  [][FetchStudentAchievements =>
       (LET list == studentSummaries'.list IN
        /\ user_achievements # <<>> =>
             \E i \in DOMAIN list :
               /\ list[i].user_id = AchStudent
               /\ {list[i].achievements[j] : j \in DOMAIN list[i].achievements}
                    = RecordedKeys
        /\ studentsWithAchievements' = (IF user_achievements = <<>> THEN 0 ELSE 1)
        /\ totalAchievementsEarned' = Len(user_achievements))]_vars

\* the rows of today that have ended
TodayEnded == SelectSeq(page_sessions, LAMBDA s : s.today /\ s.ended)

\* C26: when fetchSessions has run, 'Sessions Today' is the number of the
\* user's sessions that started today and have ended, and the minutes
\* today are the rounded sum of their durations.
C26_TodayStatsComplete ==
  [][FetchSessions =>
       /\ sessionsToday' = Len(TodayEnded)
       /\ totalToday' = RoundMinutes(SumOfHalfMinutes(TodayEnded))]_vars

\* C27: in every tab the displayed list holds the entries of the loaded
\* leaderboard in non-increasing order of the tab's metric, total_score is
\* 10 * assignments_completed + floor(study_minutes / 5), and for a viewer
\* with an entry currentUserRank is the position of that entry in the
\* displayed list.
C27_TabsSortedAndRanked ==
  \A tab \in Tabs :
    LET shown == getSortedLeaderboard(tab) IN
    /\ Len(shown) = Len(leaderboard)
    /\ {shown[i] : i \in DOMAIN shown} = {leaderboard[i] : i \in DOMAIN leaderboard}
    /\ \A i \in DOMAIN shown :
         /\ shown[i].total_score =
              10 * shown[i].assignments_completed + (shown[i].study_minutes \div 5)
         /\ i < Len(shown) => Metric(shown[i], tab) >= Metric(shown[i + 1], tab)
    /\ (\E i \in DOMAIN leaderboard : leaderboard[i].id = viewer) =>
         /\ currentUserRank(tab) \in DOMAIN shown
         /\ shown[currentUserRank(tab)].id = viewer
         /\ \A i \in 1 .. currentUserRank(tab) - 1 : shown[i].id # viewer

\* a teacher with study time is second overall and first in the study tab
C27_Witness ==
  /\ ~lb_loading
  /\ Len(leaderboard) >= 2
  /\ currentUserRank("overall") = 2
  /\ currentUserRank("study") = 1
  /\ getSortedLeaderboard("study") # leaderboard

\* the score of student u over all rows of the tables
TrueScore(u) ==
  10 * TrueAssignments(u, "all") + (TrueStudyMinutes(u, "all") \div 5)

\* C28: the rank on the dashboard of a student is the student's rank on
\* the loaded leaderboard when the student has an entry there, and it is 1
\* only when no other student has a higher score.
C28_DashboardRankIsRank ==
  viewer \in LbStudents =>
    /\ (~lb_loading /\ timePeriod = "all" /\ currentUserRank("overall") # 0) =>
         StudentStats(viewer).rank = currentUserRank("overall")
    /\ StudentStats(viewer).rank = 1 =>
         \A v \in LbStudents \ {viewer} : TrueScore(v) <= TrueScore(viewer)

\* C29: when the student has a row in user_achievements, the profile page
\* sets a badge, and the badge is for a key the student has earned.
C29_ProfileShowsBadge ==
  RecordedKeys # {} =>
    /\ fetchHighestAchievement # NULL
    /\ fetchHighestAchievement \in RecordedKeys

\* C30: a returned OPTIONS request has the CORS headers and sent no email;
\* any other returned request has status 200 and success true only when
\* its email was sent, and status 500 with success false and an error
\* whenever reading the body or sending the email failed.
C30_HandlerResponses ==
  handlerAt = "returned" =>
    /\ httpResponse # NoResponse
    /\ req.method = "OPTIONS" => (httpResponse.cors /\ ~emailSent)
    /\ req.method # "OPTIONS" =>
         /\ (httpResponse.status = 200 /\ httpResponse.success = TRUE)
              => emailSent
         /\ ~emailSent => httpResponse = Failure
====
